---- MODULE Spec2Model ----
(***************************************************************************)
(* Model of the scrape-and-paginate pipeline of src/src/commands.rs:       *)
(* fetch_launches (the upstream scraper), FlightData::to_embed (the card   *)
(* renderer) and the fetch command handler (the pagination controller),    *)
(* run by the framework as one task per invocation.                        *)
(***************************************************************************)
EXTENDS Integers, Sequences, FiniteSets, TLC

(***************************************************************************)
(* Bounds of the model.                                                    *)
(***************************************************************************)
\* Longest upstream document, in .mdl-card elements.
MaxCards == 3
\* Button presses the platform delivers in one behaviour.
MaxPresses == 2
\* Seconds by which one step of the clock advances.
TickSecs == 1800

\* The command invocations the framework runs concurrently.
Invocations == {"i1", "i2"}
\* Invocation ids (u64) the framework hands out: the decimal text of 1 is a
\* prefix of that of 12, and that of 12 is no prefix of that of 1.
CtxIds == {1, 12}

(***************************************************************************)
(* Program constants.                                                      *)
(***************************************************************************)
INTERACTION_TIMEOUT == 3600

\* Option<T>: None is the empty tuple, Some(v) the one-element tuple.
None == <<>>
Some(v) == <<v>>

(***************************************************************************)
(* Strings the code takes apart are sequences of characters.  A character  *)
(* is a one-character string; a character that has no escape in a string   *)
(* of this language is written by its code point, as "U+00A0".             *)
(***************************************************************************)
DigitChars == <<"0", "1", "2", "3", "4", "5", "6", "7", "8", "9">>

\* u64::to_string / format!("{}", ctx_id): the decimal text of n.
RECURSIVE to_string(_)
to_string(n) ==
    IF n < 10 THEN <<DigitChars[n + 1]>>
    ELSE to_string(n \div 10) \o <<DigitChars[(n % 10) + 1]>>

\* str::starts_with
starts_with(s, p) == Len(p) <= Len(s) /\ SubSeq(s, 1, Len(p)) = p

\* The characters with the Unicode property White_Space.
White_Space ==
    {"\t", "\n", "U+000B", "\f", "\r", " ", "U+0085", "U+00A0", "U+1680",
     "U+2000", "U+2001", "U+2002", "U+2003", "U+2004", "U+2005", "U+2006",
     "U+2007", "U+2008", "U+2009", "U+200A", "U+2028", "U+2029", "U+202F",
     "U+205F", "U+3000"}

\* char::is_whitespace
IsSpace(c) == c \in White_Space

\* str::trim: drop leading and trailing whitespace.
RECURSIVE trim_start(_)
trim_start(s) ==
    IF s # <<>> /\ IsSpace(Head(s)) THEN trim_start(Tail(s)) ELSE s

RECURSIVE trim_end(_)
trim_end(s) ==
    IF s # <<>> /\ IsSpace(s[Len(s)]) THEN trim_end(SubSeq(s, 1, Len(s) - 1)) ELSE s

trim(s) == trim_end(trim_start(s))

(***************************************************************************)
(* parse_time: NaiveDateTime::parse_from_str(s, "%a %b %d, %Y %H:%M %Z"),  *)
(* then read as UTC.  The format is the item list                          *)
(*   %a  ws  %b  ws  %d  ","  ws  %Y  ws  %H  ":"  %M  ws  %Z              *)
(* A run of whitespace in the format takes any whitespace of the input,    *)
(* none included; a numeric item first skips whitespace; a name item and a *)
(* literal take the input as it stands; nothing may follow the last item.  *)
(***************************************************************************)
UpperChars == <<"A", "B", "C", "D", "E", "F", "G", "H", "I", "J", "K", "L", "M",
                "N", "O", "P", "Q", "R", "S", "T", "U", "V", "W", "X", "Y", "Z">>
LowerChars == <<"a", "b", "c", "d", "e", "f", "g", "h", "i", "j", "k", "l", "m",
                "n", "o", "p", "q", "r", "s", "t", "u", "v", "w", "x", "y", "z">>

\* An ASCII letter in lower case, any other character as it is.
to_ascii_lowercase(c) ==
    IF \E k \in 1..26 : UpperChars[k] = c
    THEN LowerChars[CHOOSE k \in 1..26 : UpperChars[k] = c]
    ELSE c

WeekDays == << <<"s", "u", "n">>, <<"m", "o", "n">>, <<"t", "u", "e">>,
               <<"w", "e", "d">>, <<"t", "h", "u">>, <<"f", "r", "i">>,
               <<"s", "a", "t">> >>
Months == << <<"j", "a", "n">>, <<"f", "e", "b">>, <<"m", "a", "r">>,
             <<"a", "p", "r">>, <<"m", "a", "y">>, <<"j", "u", "n">>,
             <<"j", "u", "l">>, <<"a", "u", "g">>, <<"s", "e", "p">>,
             <<"o", "c", "t">>, <<"n", "o", "v">>, <<"d", "e", "c">> >>

\* The position in seq of the name the string s begins with: its first three
\* characters, compared without regard to ASCII case; 0 when there is none.
IndexOf(seq, s) ==
    IF Len(s) < 3 THEN 0
    ELSE LET x == [k \in 1..3 |-> to_ascii_lowercase(s[k])] IN
         IF \E i \in 1..Len(seq) : seq[i] = x
         THEN CHOOSE i \in 1..Len(seq) : seq[i] = x
         ELSE 0

\* s without its first n characters.
Drop(s, n) == SubSeq(s, n + 1, Len(s))

IsDigit(c) == \E k \in 1..10 : DigitChars[k] = c

\* How many of the first max characters of s are leading ASCII digits.
RECURSIVE LeadingDigits(_, _)
LeadingDigits(s, max) ==
    IF max = 0 \/ s = <<>> \/ ~IsDigit(Head(s)) THEN 0
    ELSE 1 + LeadingDigits(Tail(s), max - 1)

RECURSIVE SkipZeros(_)
SkipZeros(s) == IF s # <<>> /\ Head(s) = "0" THEN SkipZeros(Tail(s)) ELSE s

RECURSIVE DigitsValue(_)
DigitsValue(s) ==
    IF s = <<>> THEN 0
    ELSE DigitsValue(SubSeq(s, 1, Len(s) - 1)) * 10
           + (CHOOSE k \in 1..10 : DigitChars[k] = s[Len(s)]) - 1

\* The number a run of digits spells.  A number of ten significant digits or
\* more is beyond the range of every field of the format; it stands as 10^9.
Number(digits) ==
    IF Len(SkipZeros(digits)) > 9 THEN 1000000000 ELSE DigitsValue(SkipZeros(digits))

\* A numeric item of at most max digits at the head of s, after whitespace:
\* None without a digit, else the value and the rest of s.
ScanNumber(s, max) ==
    LET t == trim_start(s)
        n == LeadingDigits(t, max)
    IN  IF n = 0 THEN None
        ELSE Some([val |-> Number(SubSeq(t, 1, n)), rest |-> Drop(t, n)])

\* %Y: with a sign, digits without limit; without one, at most four.
ScanYear(s) ==
    LET t == trim_start(s) IN
    IF t # <<>> /\ Head(t) \in {"-", "+"}
    THEN LET n == LeadingDigits(Tail(t), Len(t)) IN
         IF n = 0 THEN None
         ELSE Some([val  |-> IF Head(t) = "-" THEN 0 - Number(SubSeq(Tail(t), 1, n))
                             ELSE Number(SubSeq(Tail(t), 1, n)),
                    rest |-> Drop(Tail(t), n)])
    ELSE ScanNumber(t, 4)

\* %Z: whatever stands before the next whitespace is skipped.
RECURSIVE timezone_name_skip(_)
timezone_name_skip(s) ==
    IF s # <<>> /\ ~IsSpace(Head(s)) THEN timezone_name_skip(Tail(s)) ELSE s

\* The fields the format's items take from the string, with the text taken
\* for %Z; None when the string does not match the format.
Scan(s) ==
    LET w  == IndexOf(WeekDays, s)
        s1 == trim_start(Drop(s, 3))
        m  == IndexOf(Months, s1)
        s2 == trim_start(Drop(s1, 3))
        d  == ScanNumber(s2, 2)
        s3 == d[1].rest
        y  == ScanYear(trim_start(Drop(s3, 1)))
        h  == ScanNumber(trim_start(y[1].rest), 2)
        s4 == h[1].rest
        mi == ScanNumber(Drop(s4, 1), 2)
        s5 == trim_start(mi[1].rest)
    IN  IF w = 0 THEN None
        ELSE IF m = 0 THEN None
        ELSE IF d = None THEN None
        ELSE IF s3 = <<>> \/ Head(s3) # "," THEN None
        ELSE IF y = None THEN None
        ELSE IF h = None THEN None
        ELSE IF s4 = <<>> \/ Head(s4) # ":" THEN None
        ELSE IF mi = None THEN None
        ELSE IF timezone_name_skip(s5) # <<>> THEN None
        ELSE Some([weekday |-> w, month |-> m, day |-> d[1].val, year |-> y[1].val,
                   hour |-> h[1].val, minute |-> mi[1].val, zone |-> s5])

IsLeap(y) == (y % 4 = 0 /\ y % 100 # 0) \/ y % 400 = 0

DaysInMonth(y, m) ==
    IF m = 2 THEN (IF IsLeap(y) THEN 29 ELSE 28)
    ELSE IF m \in {4, 6, 9, 11} THEN 30 ELSE 31

\* Days from 1970-01-01 to the civil date y-m-d.
DaysFromCivil(y, m, d) ==
    LET yy  == IF m <= 2 THEN y - 1 ELSE y
        era == yy \div 400
        yoe == yy - era * 400
        mp  == IF m > 2 THEN m - 3 ELSE m + 9
        doy == (153 * mp + 2) \div 5 + d - 1
        doe == yoe * 365 + yoe \div 4 - yoe \div 100 + doy
    IN  era * 146097 + doe - 719468

\* The scanned fields name a date (of a year from NaiveDate::MIN to
\* NaiveDate::MAX) and a time of day, and the weekday is the date's.
Consistent(p) ==
    /\ p.year >= -262143 /\ p.year <= 262142
    /\ p.day >= 1 /\ p.day <= DaysInMonth(p.year, p.month)
    /\ p.hour <= 23 /\ p.minute <= 59
    /\ (DaysFromCivil(p.year, p.month, p.day) + 4) % 7 = p.weekday - 1

\* A date and time: the days since 1970-01-01 and the seconds of the day.
DateTime(days, secs) == [days |-> days, secs |-> secs]

\* Offsets, in seconds east of UTC, of some zone abbreviations.
ZoneOffset(tz) ==
    IF tz = <<"E", "D", "T">> THEN -14400
    ELSE IF tz = <<"P", "D", "T">> THEN -25200 ELSE 0

\* A parse that honours the zone abbreviation as an offset.
parse_time_zoned(time_str) ==
    LET p == Scan(time_str) IN
    IF p = None THEN None
    ELSE IF ~Consistent(p[1]) THEN None
    ELSE LET local == p[1].hour * 3600 + p[1].minute * 60 - ZoneOffset(p[1].zone)
             days  == DaysFromCivil(p[1].year, p[1].month, p[1].day)
         IN  Some(DateTime(days + local \div 86400, local % 86400))

\* The instant the string names, its wall-clock fields read as UTC, or None
\* when the string does not match the format or its fields are inconsistent.
parse_time(time_str) ==
    LET p == Scan(time_str) IN
    IF p = None THEN None
    ELSE IF ~Consistent(p[1]) THEN None
    ELSE Some(DateTime(DaysFromCivil(p[1].year, p[1].month, p[1].day),
                       p[1].hour * 3600 + p[1].minute * 60))

(***************************************************************************)
(* FlightData and the card renderer.                                       *)
(***************************************************************************)
FlightData(name, time, launch_site, details) ==
    [name |-> name, time |-> time, launch_site |-> launch_site, details |-> details]

\* DateTime::timestamp: the i64 days * 86400 + secs, held as its sign and the
\* two parts hi and lo of its magnitude hi * 10^6 + lo (625 days are
\* 54 * 10^6 seconds).
timestamp(time) ==
    LET q == time.days \div 625
        x == (time.days % 625) * 86400 + time.secs
        y == 54000000 - x
    IN  IF q >= 0
        THEN [neg |-> FALSE, hi |-> q * 54 + x \div 1000000, lo |-> x % 1000000]
        ELSE [neg |-> TRUE, hi |-> (0 - q - 1) * 54 + y \div 1000000, lo |-> y % 1000000]

\* format!("{}", n) of an i64: its decimal text.
i64_to_string(n) ==
    (IF n.neg THEN <<"-">> ELSE <<>>)
      \o (IF n.hi = 0 THEN to_string(n.lo)
          ELSE to_string(n.hi) \o Tail(to_string(1000000 + n.lo)))

formatted_time(flight) == <<"<t:", i64_to_string(timestamp(flight.time)), ":F>">>

to_embed(flight, counter) ==
    [ footer |-> "Via NextSpaceflight",
      fields |-> << <<"Time", formatted_time(flight), FALSE>>,
                    <<"Launch Site", flight.launch_site, FALSE>> >>,
      title  |-> <<"#", counter, " | ", trim(flight.name)>>,
      url    |-> <<"https://nextspaceflight.com", flight.details>>,
      color  |-> 16777215 ]

(***************************************************************************)
(* The upstream document: the sequence of its .mdl-card elements.  Of each *)
(* card the scraper reads                                                  *)
(*   supporting: the text runs of the first .mdl-card__supporting-text     *)
(*               descendant (None without one); run [1] of the code, the   *)
(*               second run, is a time string, the others plain strings;   *)
(*   header:     the text nodes of the first h5.header-style descendant    *)
(*               (None without one);                                       *)
(*   button:     the href attribute (itself an Option) of the first        *)
(*               .mdc-button descendant (None without one).                *)
(***************************************************************************)
Card(supporting, header, button) ==
    [supporting |-> supporting, header |-> header, button |-> button]

\* The closure given to filter_map: the record of one card, or None to drop it.
parse_card(launch) ==
    IF launch.supporting = None THEN None
    ELSE LET launch_data == launch.supporting[1] IN
         IF Len(launch_data) # 4 THEN None
         ELSE LET time == parse_time(launch_data[2]) IN
              IF time = None THEN None
              ELSE IF launch.header = None THEN None
              ELSE IF launch.header[1] = <<>> THEN None
              ELSE IF launch.button = None THEN None
              ELSE IF launch.button[1] = None THEN None
              ELSE Some(FlightData(launch.header[1][1], time[1],
                                   launch_data[4], launch.button[1][1]))

\* A scan that ends at the first card the closure drops.
RECURSIVE filter_map_until_none(_)
filter_map_until_none(cards) ==
    IF cards = <<>> THEN <<>>
    ELSE IF parse_card(Head(cards)) = None THEN <<>>
    ELSE parse_card(Head(cards)) \o filter_map_until_none(Tail(cards))

\* Iterator::filter_map over the cards in document order.
RECURSIVE filter_map(_)
filter_map(cards) ==
    IF cards = <<>> THEN <<>>
    ELSE parse_card(Head(cards)) \o filter_map(Tail(cards))

\* Result<T, Error>
Ok(v) == [ok |-> TRUE, val |-> v, err |-> ""]
Err(e) == [ok |-> FALSE, val |-> <<>>, err |-> e]

(***************************************************************************)
(* fetch_launches on the outcome of the GET: resp.transport_ok is false    *)
(* when reqwest::get fails, resp.status is the HTTP status of the          *)
(* response, resp.body_ok is false when reading the body as text fails,    *)
(* resp.body is the document.  The status is not consulted.                *)
(***************************************************************************)
fetch_launches(resp) ==
    IF ~resp.transport_ok THEN Err("reqwest")
    ELSE IF ~resp.body_ok THEN Err("reqwest")
    ELSE Ok(filter_map(resp.body))

\* The cards numbered with the zero-based position.
render_pages_zero_based(launches) ==
    [k \in 1..Len(launches) |-> to_embed(launches[k], k - 1)]

\* launches.iter().enumerate().map(|(i, flight)| flight.to_embed(i + 1))
render_pages(launches) ==
    [k \in 1..Len(launches) |-> to_embed(launches[k], (k - 1) + 1)]

(***************************************************************************)
(* Button identifiers and the collector's filter.                          *)
(***************************************************************************)
prev_button_id(id) == to_string(id) \o <<"p", "r", "e", "v", "i", "o", "u", "s">>
next_button_id(id) == to_string(id) \o <<"n", "e", "x", "t">>

\* CreateActionRow::Buttons(vec![Previous, Next]) of the initial reply.
components(id) ==
    << [custom_id |-> prev_button_id(id), label |-> "Previous"],
       [custom_id |-> next_button_id(id), label |-> "Next"] >>

initial_reply(pages, id) ==
    [embed |-> pages[0 + 1], components |-> components(id)]

\* .filter(move |press| press.data.custom_id.starts_with(&ctx_id.to_string()))
collector_filter(id, custom_id) == starts_with(custom_id, to_string(id))

\* str::ends_with
ends_with(s, suffix) ==
    /\ Len(suffix) <= Len(s)
    /\ SubSeq(s, Len(s) - Len(suffix) + 1, Len(s)) = suffix

\* A match that tells the buttons by the end of the custom_id alone.
next_page_num_by_suffix(page_num, custom_id, id, total) ==
    IF ends_with(custom_id, <<"n", "e", "x", "t">>) THEN (page_num + 1) % total
    ELSE IF ends_with(custom_id, <<"p", "r", "e", "v", "i", "o", "u", "s">>)
         THEN (IF page_num >= 1 THEN page_num - 1 ELSE total - 1)
    ELSE page_num

\* The match with a Previous arm that saturates at 0 instead of wrapping.
next_page_num_saturating(page_num, custom_id, id, total) ==
    IF custom_id = next_button_id(id) THEN (page_num + 1) % total
    ELSE IF custom_id = prev_button_id(id)
         THEN (IF page_num >= 1 THEN page_num - 1 ELSE 0)
    ELSE page_num

\* The match with a default arm that advances like Next.
next_page_num_default_advances(page_num, custom_id, id, total) ==
    IF custom_id = prev_button_id(id)
    THEN (IF page_num >= 1 THEN page_num - 1 ELSE total - 1)
    ELSE (page_num + 1) % total

\* The match on press.data.custom_id of the loop body.
next_page_num(page_num, custom_id, id, total) ==
    IF custom_id = next_button_id(id) THEN (page_num + 1) % total
    ELSE IF custom_id = prev_button_id(id)
         THEN (IF page_num >= 1 THEN page_num - 1 ELSE total - 1)
    ELSE page_num

(***************************************************************************)
(* Inputs: the upstream responses an invocation can meet.                  *)
(***************************************************************************)
AlphaName == <<" ", "A", "l", "p", "h", "a", " ">>

\* A time string as the upstream writes it: the six parts, one space between.
TimeString(wd, mon, day, year, clock, tz) ==
    wd \o <<" ">> \o mon \o <<" ">> \o day \o <<",", " ">> \o year
       \o <<" ">> \o clock \o <<" ">> \o tz

Fri == <<"F", "r", "i">>
Oct == <<"O", "c", "t">>
Y2026 == <<"2", "0", "2", "6">>
Noon == <<"1", "2", ":", "0", "0">>
UTC == <<"U", "T", "C">>

\* "Fri Oct 30, 2026 12:00 UTC"
LaunchTime == TimeString(Fri, Oct, <<"3", "0">>, Y2026, Noon, UTC)

\* A card that yields a record, and one whose supporting text has three runs.
GoodCard ==
    Card(Some(<<"\n", LaunchTime, "\n", "SLC-40, Cape Canaveral">>),
         Some(<<AlphaName>>), Some(Some("/launches/details/1")))
ShortCard ==
    Card(Some(<<"\n", LaunchTime, "SLC-40, Cape Canaveral">>),
         Some(<<AlphaName>>), Some(Some("/launches/details/2")))

SpecCards == {GoodCard, ShortCard}
Documents == UNION {[1..k -> SpecCards] : k \in 0..MaxCards}
Statuses == {200, 503}

Response(transport_ok, status, body_ok, body) ==
    [transport_ok |-> transport_ok, status |-> status, body_ok |-> body_ok, body |-> body]

Responses ==
    {Response(FALSE, 0, FALSE, <<>>)}
    \cup {Response(TRUE, st, FALSE, <<>>) : st \in Statuses}
    \cup {Response(TRUE, st, TRUE, d) : st \in Statuses, d \in Documents}

\* What a handler can get of its scrape: the result of fetch_launches on a
\* response (line 83), with the cards rendered of it (lines 85-89).
Scrapes ==
    { LET res == fetch_launches(resp)
      IN  [res |-> res, pages |-> IF res.ok THEN render_pages(res.val) ELSE <<>>]
      : resp \in Responses }

(***************************************************************************)
(* State.  Per invocation i of the fetch command:                          *)
(*   pc[i]          where the handler is: "idle" (not invoked), "fetching" *)
(*                  (suspended in fetch_launches), "sending" (suspended in *)
(*                  ctx.send), "awaiting" (at the collector's await),      *)
(*                  "handling" (a press yielded, loop body to run),        *)
(*                  "editing" (suspended in create_response), "done";      *)
(*   result[i]      what the handler returned: "none" while running, "Ok", *)
(*                  "Err" or "panic";                                      *)
(*   failed_at[i]   the call whose error was returned ("none", "scrape",   *)
(*                  "send", "edit") or the panicking expression ("index"); *)
(*   ctx_id[i]      ctx.id(), 0 before the invocation;                     *)
(*   scrape[i]      the result of fetch_launches: "none", "Ok", "Err";     *)
(*   embed_pages[i] the rendered cards;                                    *)
(*   sent[i]        the replies handed to ctx.send, each with whether the  *)
(*                  platform has posted it and how the call came back      *)
(*                  ("pending", "ok", "err");                              *)
(*   page_num[i]    the loop's page_num;                                   *)
(*   press[i]       the press the collector yielded, None outside the body;*)
(*   idle[i]        seconds the current await has lasted;                  *)
(*   edits[i]       number of create_response calls;                       *)
(*   last_edit[i]   the last create_response: the press answered, the      *)
(*                  embed of the UpdateMessage, how the call came back     *)
(*                  ("pending", "ok", "err");                              *)
(*   nexts[i], prevs[i]  handled presses of the Next and the Previous      *)
(*                  button of this invocation's own message.               *)
(* presses counts the presses the platform has delivered.                  *)
(* For the scraper taken alone: upstream is the outcome of the GET that a  *)
(* call of fetch_launches meets, launches what the call returned, rendered *)
(* the cards made of the returned records (None before they are made).     *)
(***************************************************************************)
VARIABLES pc, result, failed_at, ctx_id, scrape, embed_pages, sent,
          page_num, press, idle, edits, last_edit, nexts, prevs, presses,
          upstream, launches, rendered

ctl == <<pc, result, failed_at, ctx_id, scrape, embed_pages, sent,
         page_num, press, idle, edits, last_edit, nexts, prevs, presses>>
vars == <<ctl, upstream, launches, rendered>>

\* No call of fetch_launches made (yet).
NotFetched == [ok |-> FALSE, val |-> <<>>, err |-> "not fetched"]

CtlInit ==
    /\ pc = [i \in Invocations |-> "idle"]
    /\ result = [i \in Invocations |-> "none"]
    /\ failed_at = [i \in Invocations |-> "none"]
    /\ ctx_id = [i \in Invocations |-> 0]
    /\ scrape = [i \in Invocations |-> "none"]
    /\ embed_pages = [i \in Invocations |-> <<>>]
    /\ sent = [i \in Invocations |-> <<>>]
    /\ page_num = [i \in Invocations |-> 0]
    /\ press = [i \in Invocations |-> None]
    /\ idle = [i \in Invocations |-> 0]
    /\ edits = [i \in Invocations |-> 0]
    /\ last_edit = [i \in Invocations |-> None]
    /\ nexts = [i \in Invocations |-> 0]
    /\ prevs = [i \in Invocations |-> 0]
    /\ presses = 0

Init ==
    /\ CtlInit
    /\ upstream = Response(FALSE, 0, FALSE, <<>>)
    /\ launches = NotFetched
    /\ rendered = None

\* The handler of i returns r; what names the failing call.
Return(i, r, what) ==
    /\ pc' = [pc EXCEPT ![i] = "done"]
    /\ result' = [result EXCEPT ![i] = r]
    /\ failed_at' = [failed_at EXCEPT ![i] = what]

(***************************************************************************)
(* fetch, line 82 to the first suspension of line 83: the framework starts *)
(* the handler with a fresh id; the handler calls fetch_launches and       *)
(* waits for the GET.                                                      *)
(***************************************************************************)
Invoke(i) ==
    /\ pc[i] = "idle"
    /\ \E id \in CtxIds \ {ctx_id[j] : j \in Invocations} :
         ctx_id' = [ctx_id EXCEPT ![i] = id]
    /\ pc' = [pc EXCEPT ![i] = "fetching"]
    /\ UNCHANGED <<result, failed_at, scrape, embed_pages, sent, page_num, press,
                   idle, edits, last_edit, nexts, prevs, presses,
                   upstream, launches, rendered>>

\* The handler with the `?` of line 83 left out: a failed scrape goes on as
\* an empty one.
AfterScrapeErrorSwallowed(res, pages) ==
    IF Len(pages) = 0 THEN <<"done", "panic", "index">>
    ELSE <<"sending", "none", "none">>

\* Where the handler goes after fetch_launches and rendering: the `?` of line
\* 83 returns the scraper's error; embed_pages[0] of line 102 panics on an
\* empty list; otherwise the handler reaches ctx.send.
AfterScrape(res, pages) ==
    IF ~res.ok THEN <<"done", "Err", "scrape">>
    ELSE IF Len(pages) = 0 THEN <<"done", "panic", "index">>
    ELSE <<"sending", "none", "none">>

(***************************************************************************)
(* fetch, lines 83-106: the GET comes back; the handler scrapes, renders   *)
(* every card, names its buttons, builds the initial reply, hands it to    *)
(* ctx.send and waits.                                                     *)
(***************************************************************************)
Scraped(i) ==
    /\ pc[i] = "fetching"
    /\ \E s \in Scrapes :
         LET res   == s.res
             pages == s.pages
             to    == AfterScrape(res, pages)
         IN  /\ scrape' = [scrape EXCEPT ![i] = IF res.ok THEN "Ok" ELSE "Err"]
             /\ embed_pages' = [embed_pages EXCEPT ![i] = pages]
             /\ pc' = [pc EXCEPT ![i] = to[1]]
             /\ result' = [result EXCEPT ![i] = to[2]]
             /\ failed_at' = [failed_at EXCEPT ![i] = to[3]]
             /\ sent' = [sent EXCEPT ![i] =
                    IF to[1] = "sending"
                    THEN <<[reply   |-> initial_reply(pages, ctx_id[i]),
                            posted  |-> FALSE,
                            outcome |-> "pending"]>>
                    ELSE @]
    /\ UNCHANGED <<ctx_id, page_num, press, idle, edits, last_edit, nexts, prevs,
                   presses, upstream, launches, rendered>>

\* The message of i exists on the platform.
Posted(i) == sent[i] # <<>> /\ sent[i][1].posted

(***************************************************************************)
(* The platform posts the reply it was handed, while the handler waits in  *)
(* ctx.send.                                                               *)
(***************************************************************************)
Post(i) ==
    /\ pc[i] = "sending"
    /\ ~Posted(i)
    /\ sent' = [sent EXCEPT ![i][1].posted = TRUE]
    /\ UNCHANGED <<pc, result, failed_at, ctx_id, scrape, embed_pages, page_num,
                   press, idle, edits, last_edit, nexts, prevs, presses,
                   upstream, launches, rendered>>

\* A timeout whose deadline is set once, when the first collector is built:
\* the time waited before a press keeps counting against the window after it.
await_elapsed_since_first(waited) == waited

\* .timeout(INTERACTION_TIMEOUT) of a collector built anew for every await: the
\* seconds the await has lasted when it begins, whatever the await before it
\* had waited.
await_elapsed(waited) == 0

\* Where the handler goes after ctx.send(initial_reply).await?
AfterSend(ok) ==
    IF ok THEN <<"awaiting", "none", "none">> ELSE <<"done", "Err", "send">>

(***************************************************************************)
(* fetch, lines 106-112: ctx.send comes back, with success only when the   *)
(* message was posted; on success the handler sets page_num = 0 and builds *)
(* the first collector.                                                    *)
(***************************************************************************)
SendReply(i) ==
    /\ pc[i] = "sending"
    /\ \E ok \in BOOLEAN :
         LET to == AfterSend(ok) IN
         /\ ok => Posted(i)
         /\ sent' = [sent EXCEPT ![i][1].outcome = IF ok THEN "ok" ELSE "err"]
         /\ pc' = [pc EXCEPT ![i] = to[1]]
         /\ result' = [result EXCEPT ![i] = to[2]]
         /\ failed_at' = [failed_at EXCEPT ![i] = to[3]]
    /\ page_num' = [page_num EXCEPT ![i] = 0]
    /\ idle' = [idle EXCEPT ![i] = await_elapsed(idle[i])]
    /\ UNCHANGED <<ctx_id, scrape, embed_pages, press, edits, last_edit,
                   nexts, prevs, presses, upstream, launches, rendered>>

\* A collector that goes on yielding presses after its timeout.
CollectingPastTimeout(i) == pc[i] = "awaiting"

\* A collector that stays registered while the loop body runs.
CollectingWhileHandling(i) ==
    pc[i] \in {"awaiting", "handling", "editing"} /\ idle[i] < INTERACTION_TIMEOUT

\* The collector of i is registered and its timeout has not yet expired.
Collecting(i) == pc[i] = "awaiting" /\ idle[i] < INTERACTION_TIMEOUT

\* The collector of i yields the press: it is collecting and its filter passes.
Observes(i, custom_id) == Collecting(i) /\ collector_filter(ctx_id[i], custom_id)

(***************************************************************************)
(* The platform: a user presses button b of the message of invocation o.   *)
(* The framework hands the event to every registered collector; each       *)
(* collector whose filter passes yields it to its handler.                 *)
(***************************************************************************)
Press(o, b) ==
    /\ presses < MaxPresses
    /\ Posted(o)
    /\ b \in 1..Len(sent[o][1].reply.components)
    /\ LET button == sent[o][1].reply.components[b]
           event  == [msg |-> o, label |-> button.label, custom_id |-> button.custom_id]
       IN  /\ press' = [i \in Invocations |->
                          IF Observes(i, event.custom_id) THEN Some(event) ELSE press[i]]
           /\ pc' = [i \in Invocations |->
                          IF Observes(i, event.custom_id) THEN "handling" ELSE pc[i]]
    /\ presses' = presses + 1
    /\ UNCHANGED <<result, failed_at, ctx_id, scrape, embed_pages, sent,
                   page_num, idle, edits, last_edit, nexts, prevs,
                   upstream, launches, rendered>>

\* A loop body that scrapes and renders again before it answers the press.
HandlePressRescrapes(i) ==
    /\ pc[i] = "handling"
    /\ \E s \in Scrapes :
         LET pages == IF s.pages # <<>> THEN s.pages ELSE embed_pages[i]
             total == Len(pages)
             p     == press[i][1]
             n     == next_page_num(page_num[i] % total, p.custom_id, ctx_id[i], total)
         IN  /\ embed_pages' = [embed_pages EXCEPT ![i] = pages]
             /\ page_num' = [page_num EXCEPT ![i] = n]
             /\ edits' = [edits EXCEPT ![i] = @ + 1]
             /\ last_edit' = [last_edit EXCEPT ![i] =
                    Some([press |-> p, embed |-> pages[n + 1], outcome |-> "pending"])]
             /\ nexts' = [nexts EXCEPT ![i] =
                    IF p.msg = i /\ p.label = "Next" THEN @ + 1 ELSE @]
             /\ prevs' = [prevs EXCEPT ![i] =
                    IF p.msg = i /\ p.label = "Previous" THEN @ + 1 ELSE @]
    /\ pc' = [pc EXCEPT ![i] = "editing"]
    /\ UNCHANGED <<result, failed_at, ctx_id, scrape, sent, press, idle, presses,
                   upstream, launches, rendered>>

(***************************************************************************)
(* fetch, lines 114-127: the loop body on the press yielded: update        *)
(* page_num, call create_response with an UpdateMessage carrying           *)
(* embed_pages[page_num], and wait.                                        *)
(***************************************************************************)
HandlePress(i) ==
    /\ pc[i] = "handling"
    /\ LET total == Len(embed_pages[i])
           p     == press[i][1]
           n     == next_page_num(page_num[i], p.custom_id, ctx_id[i], total)
       IN  /\ page_num' = [page_num EXCEPT ![i] = n]
           /\ edits' = [edits EXCEPT ![i] = @ + 1]
           /\ last_edit' = [last_edit EXCEPT ![i] =
                  Some([press |-> p, embed |-> embed_pages[i][n + 1],
                        outcome |-> "pending"])]
           /\ nexts' = [nexts EXCEPT ![i] =
                  IF p.msg = i /\ p.label = "Next" THEN @ + 1 ELSE @]
           /\ prevs' = [prevs EXCEPT ![i] =
                  IF p.msg = i /\ p.label = "Previous" THEN @ + 1 ELSE @]
    /\ pc' = [pc EXCEPT ![i] = "editing"]
    /\ UNCHANGED <<result, failed_at, ctx_id, scrape, embed_pages, sent, press, idle,
                   presses, upstream, launches, rendered>>

\* The loop with the error of create_response dropped.
AfterEditErrorDropped(ok) == <<"awaiting", "none", "none">>

\* Where the handler goes after press.create_response(..).await?
AfterEdit(ok) ==
    IF ok THEN <<"awaiting", "none", "none">> ELSE <<"done", "Err", "edit">>

(***************************************************************************)
(* fetch, line 127 and back to 109-112: create_response comes back; on     *)
(* success the body ends and the handler builds the next collector.        *)
(***************************************************************************)
Edited(i) ==
    /\ pc[i] = "editing"
    /\ \E ok \in BOOLEAN :
         LET to == AfterEdit(ok) IN
         /\ last_edit' = [last_edit EXCEPT ![i][1].outcome = IF ok THEN "ok" ELSE "err"]
         /\ pc' = [pc EXCEPT ![i] = to[1]]
         /\ result' = [result EXCEPT ![i] = to[2]]
         /\ failed_at' = [failed_at EXCEPT ![i] = to[3]]
    /\ press' = [press EXCEPT ![i] = None]
    /\ idle' = [idle EXCEPT ![i] = await_elapsed(idle[i])]
    /\ UNCHANGED <<ctx_id, scrape, embed_pages, sent, page_num, edits, nexts, prevs,
                   presses, upstream, launches, rendered>>

\* A loop that builds a new collector when the timeout expires, instead of
\* ending.
TimeoutRearms(i) ==
    /\ pc[i] = "awaiting"
    /\ idle[i] >= INTERACTION_TIMEOUT
    /\ idle' = [idle EXCEPT ![i] = 0]
    /\ UNCHANGED <<pc, result, failed_at, ctx_id, scrape, embed_pages, sent,
                   page_num, press, edits, last_edit, nexts, prevs, presses,
                   upstream, launches, rendered>>

(***************************************************************************)
(* fetch, lines 109-113 and 130: the collector's timeout expires with no   *)
(* press taken; the await yields None, the loop ends, the handler returns  *)
(* Ok(()).                                                                 *)
(***************************************************************************)
Timeout(i) ==
    /\ pc[i] = "awaiting"
    /\ idle[i] >= INTERACTION_TIMEOUT
    /\ Return(i, "Ok", "none")
    /\ UNCHANGED <<ctx_id, scrape, embed_pages, sent, page_num, press, idle,
                   edits, last_edit, nexts, prevs, presses, upstream, launches, rendered>>

\* Time passes for every collector that is waiting; an expired collector
\* fires before time passes further.
Tick ==
    /\ \E i \in Invocations : pc[i] = "awaiting"
    /\ \A i \in Invocations : pc[i] = "awaiting" => idle[i] < INTERACTION_TIMEOUT
    /\ idle' = [i \in Invocations |->
                  IF pc[i] = "awaiting" THEN idle[i] + TickSecs ELSE idle[i]]
    /\ UNCHANGED <<pc, result, failed_at, ctx_id, scrape, embed_pages, sent,
                   page_num, press, edits, last_edit, nexts, prevs, presses,
                   upstream, launches, rendered>>

Next ==
    \/ \E i \in Invocations : Invoke(i)
    \/ \E i \in Invocations : Scraped(i)
    \/ \E i \in Invocations : Post(i)
    \/ \E i \in Invocations : SendReply(i)
    \/ \E o \in Invocations, b \in 1..2 : Press(o, b)
    \/ \E i \in Invocations : HandlePress(i)
    \/ \E i \in Invocations : Edited(i)
    \/ \E i \in Invocations : Timeout(i)
    \/ Tick

Spec == Init /\ [][Next]_vars

\* The runtime keeps polling the handler's futures and the platform answers
\* every call: the clock advances, an expired timeout is delivered, a press
\* yielded is taken up by the loop body, and a ctx.send or a create_response
\* that was started comes back, with success or with an error.
Fairness ==
    /\ WF_vars(Tick)
    /\ \A i \in Invocations :
         /\ WF_vars(SendReply(i))
         /\ WF_vars(HandlePress(i))
         /\ WF_vars(Edited(i))
         /\ WF_vars(Timeout(i))

FairSpec == Spec /\ Fairness

(***************************************************************************)
(* The scraper alone: one call of fetch_launches on each outcome of the    *)
(* GET, over documents of a wider range of cards.                          *)
(***************************************************************************)
BravoName == <<"B", "r", "a", "v", "o">>
\* "Fri Oct 30, 2026 12:00 EDT"
BravoCard ==
    Card(Some(<<"\n", TimeString(Fri, Oct, <<"3", "0">>, Y2026, Noon, <<"E", "D", "T">>),
                "\n", "LC-39A, Kennedy Space Center">>),
         Some(<<BravoName>>), Some(Some("/launches/details/3")))
\* "NET Oct 30, 2026 12:00 UTC"
BadTimeCard ==
    Card(Some(<<"\n", TimeString(<<"N", "E", "T">>, Oct, <<"3", "0">>, Y2026, Noon, UTC),
                "\n", "SLC-40, Cape Canaveral">>),
         Some(<<AlphaName>>), Some(Some("/launches/details/4")))

\* Cards without a supporting-text block, without a header, with a header that
\* holds no text node, without a details button, with a button without href.
NoSupportingCard ==
    Card(None, Some(<<AlphaName>>), Some(Some("/launches/details/5")))
NoHeaderCard ==
    Card(Some(<<"\n", LaunchTime, "\n", "SLC-40, Cape Canaveral">>),
         None, Some(Some("/launches/details/6")))
EmptyHeaderCard ==
    Card(Some(<<"\n", LaunchTime, "\n", "SLC-40, Cape Canaveral">>),
         Some(<<>>), Some(Some("/launches/details/7")))
NoButtonCard ==
    Card(Some(<<"\n", LaunchTime, "\n", "SLC-40, Cape Canaveral">>),
         Some(<<AlphaName>>), None)
NoHrefCard ==
    Card(Some(<<"\n", LaunchTime, "\n", "SLC-40, Cape Canaveral">>),
         Some(<<AlphaName>>), Some(None))

\* "sat  JAN 1,2039 0: 5" with a name between carriage returns: names in
\* another case, whitespace doubled and left out, short numbers, no zone, an
\* instant past 2^31 seconds.
CharlieName == <<"\r", "C", "h", "a", "r", "l", "i", "e", "U+00A0", "\r">>
LateCard ==
    Card(Some(<<"\n",
                <<"s", "a", "t", " ", " ", "J", "A", "N", " ", "1", ",",
                  "2", "0", "3", "9", " ", "0", ":", " ", "5">>,
                "\n", "SLC-4E, Vandenberg">>),
         Some(<<CharlieName>>), Some(Some("/launches/details/8")))
\* "\nFri Oct 30, 2026 12:00 UTC" and "Fri Oct 30, 2026 12:00 UTC x": whitespace
\* before the weekday, text after the zone.
PaddedTimeCard ==
    Card(Some(<<"\n", <<"\n">> \o LaunchTime, "\n", "SLC-40, Cape Canaveral">>),
         Some(<<AlphaName>>), Some(Some("/launches/details/9")))
TrailingTimeCard ==
    Card(Some(<<"\n", LaunchTime \o <<" ", "x">>, "\n", "SLC-40, Cape Canaveral">>),
         Some(<<AlphaName>>), Some(Some("/launches/details/10")))

ScrapeCards ==
    {GoodCard, BravoCard, ShortCard, BadTimeCard, NoSupportingCard,
     NoHeaderCard, EmptyHeaderCard, NoButtonCard, NoHrefCard,
     LateCard, PaddedTimeCard, TrailingTimeCard}
ScrapeDocuments == UNION {[1..k -> ScrapeCards] : k \in 0..MaxCards}
ScrapeResponses ==
    {Response(FALSE, 0, FALSE, <<>>)}
    \cup {Response(TRUE, st, FALSE, <<>>) : st \in Statuses}
    \cup {Response(TRUE, st, TRUE, d) : st \in Statuses, d \in ScrapeDocuments}

ScrapeInit ==
    /\ CtlInit
    /\ upstream \in ScrapeResponses
    /\ launches = NotFetched
    /\ rendered = None

\* fetch_launches, lines 46-79, called once.
Fetch ==
    /\ launches = NotFetched
    /\ launches' = fetch_launches(upstream)
    /\ UNCHANGED <<ctl, upstream, rendered>>

\* fetch, lines 85-89: the records returned are rendered, each with its
\* one-based position.
Render ==
    /\ launches.ok
    /\ rendered = None
    /\ rendered' = Some(render_pages(launches.val))
    /\ UNCHANGED <<ctl, upstream, launches>>

ScrapeNext == Fetch \/ Render

ScrapeSpec == ScrapeInit /\ [][ScrapeNext]_vars

(***************************************************************************)
(* Properties.                                                             *)
(***************************************************************************)
OwnIds(i) == {prev_button_id(ctx_id[i]), next_button_id(ctx_id[i])}

\* C1: pagination ring law.  For every card count N >= 1, after a handled
\* presses of the invocation's Next button and b of its Previous button, in any
\* order, page_num is (a - b) mod N in [0, N).
RingLaw ==
    \A i \in Invocations :
        Len(embed_pages[i]) >= 1 =>
            /\ page_num[i] \in 0..(Len(embed_pages[i]) - 1)
            /\ page_num[i] = (nexts[i] - prevs[i]) % Len(embed_pages[i])

\* A Previous press at index 0 of three cards has wrapped to index 2.
RingLawWitness ==
    \E i \in Invocations :
        Len(embed_pages[i]) = 3 /\ nexts[i] = 0 /\ prevs[i] = 1 /\ page_num[i] = 2

\* C2 (as claimed): for every scrape result, N = 0 included, the handler never
\* aborts on an out-of-range access and the index stays in [0, N).
IndexAlwaysInBounds ==
    \A i \in Invocations :
        /\ result[i] # "panic"
        /\ scrape[i] = "Ok" => page_num[i] < Len(embed_pages[i])

\* C3 (as claimed): a scrape that succeeds with zero records makes the handler
\* return a "no launches" error, with no reply sent and no loop entered.
EmptyScrapeSurfacesError ==
    \A i \in Invocations :
        (scrape[i] = "Ok" /\ Len(embed_pages[i]) = 0) =>
            /\ result[i] = "Err"
            /\ sent[i] = <<>>
            /\ edits[i] = 0

\* C4 (as claimed): scope isolation.  For two invocations with distinct ids A
\* and B, a press whose custom_id starts with A is never yielded by B's
\* collector nor answered by B.
ScopeIsolation ==
    \A a, b \in Invocations :
        (a # b /\ ctx_id[a] # 0 /\ ctx_id[b] # 0) =>
            /\ press[b] # None =>
                 ~starts_with(press[b][1].custom_id, to_string(ctx_id[a]))
            /\ last_edit[b] # None =>
                 ~starts_with(last_edit[b][1].press.custom_id, to_string(ctx_id[a]))

\* C5: a press that passed the filter and is neither the Next nor the Previous
\* identifier leaves page_num unchanged and is answered by exactly one edit
\* whose body is the card at the index before the press.
UnknownPressRerenders ==
    [][ \A i \in Invocations :
          (pc[i] = "handling" /\ pc'[i] # "handling"
             /\ press[i][1].custom_id \notin OwnIds(i)) =>
            /\ collector_filter(ctx_id[i], press[i][1].custom_id)
            /\ page_num'[i] = page_num[i]
            /\ edits'[i] = edits[i] + 1
            /\ last_edit'[i] # None
            /\ last_edit'[i][1].press = press[i][1]
            /\ last_edit'[i][1].embed = embed_pages[i][page_num[i] + 1] ]_vars

\* An unrecognised press has been answered by an invocation with several cards.
UnknownPressWitness ==
    \E i \in Invocations :
        /\ last_edit[i] # None
        /\ last_edit[i][1].press.custom_id \notin OwnIds(i)
        /\ Len(embed_pages[i]) >= 2

\* A step sends nothing, edits nothing and takes no press for invocation i.
Quiet(i) ==
    /\ sent'[i] = sent[i]
    /\ page_num'[i] = page_num[i]
    /\ edits'[i] = edits[i]
    /\ last_edit'[i] = last_edit[i]
    /\ press'[i] = press[i]

\* A step leaves invocation i as it was when its handler returned.
Frozen(i) ==
    /\ pc'[i] = "done"
    /\ result'[i] = result[i]
    /\ failed_at'[i] = failed_at[i]
    /\ Quiet(i)

\* C6: when the idle window of 3600 seconds has elapsed during an await, the
\* only step of the handler is to return Ok without sending or editing
\* anything; a handler returns Ok in no other way; and once closed it stays
\* closed: no later press produces an edit or changes page_num.
TimeoutCloses ==
    [][ \A i \in Invocations :
          /\ (pc[i] = "awaiting" /\ idle[i] >= 3600 /\ pc'[i] # "awaiting") =>
                (pc'[i] = "done" /\ result'[i] = "Ok" /\ Quiet(i))
          /\ (result[i] # "Ok" /\ result'[i] = "Ok") =>
                (pc[i] = "awaiting" /\ idle[i] >= 3600)
          /\ (pc[i] = "awaiting" /\ idle[i] < 3600) => pc'[i] # "done"
          /\ result[i] = "Ok" => Frozen(i) ]_vars

\* An invocation closed by its timeout without ever taking a press, while a
\* press of a button of its message (the only message posted) was delivered.
TimeoutWitness ==
    \E i \in Invocations :
        /\ result[i] = "Ok"
        /\ edits[i] = 0
        /\ presses >= 1
        /\ \A j \in Invocations \ {i} : pc[j] = "idle"

\* C7 (as claimed): the initial reply carries cards[0] and the Previous and Next
\* buttons, it is the only message the handler posts, and every edit is an edit
\* of the invocation's own message carrying cards[page_num].
DisplayedCardConsistency ==
    \A i \in Invocations :
        /\ Len(sent[i]) <= 1
        /\ sent[i] # <<>> =>
             /\ sent[i][1].reply.embed = embed_pages[i][1]
             /\ sent[i][1].reply.components =
                  << [custom_id |-> prev_button_id(ctx_id[i]), label |-> "Previous"],
                     [custom_id |-> next_button_id(ctx_id[i]), label |-> "Next"] >>
        /\ last_edit[i] # None =>
             /\ last_edit[i][1].embed = embed_pages[i][page_num[i] + 1]
             /\ last_edit[i][1].press.msg = i

\* C8: a failed dispatch of the initial reply or of an edit makes the handler
\* return that error at once; nothing of the invocation changes afterwards (no
\* press taken, no edit, no second attempt).
DispatchFailureEnds ==
    [][ \A i \in Invocations :
          /\ (sent'[i] # <<>> /\ sent'[i][1].outcome = "err") =>
                (pc'[i] = "done" /\ result'[i] = "Err" /\ failed_at'[i] = "send"
                   /\ Len(sent'[i]) = 1 /\ edits'[i] = 0)
          /\ (last_edit'[i] # None /\ last_edit'[i][1].outcome = "err") =>
                (pc'[i] = "done" /\ result'[i] = "Err" /\ failed_at'[i] = "edit")
          /\ result[i] = "Err" => Frozen(i) ]_vars

\* An edit failed, and a press delivered besides the ones answered got no edit.
DispatchFailureWitness ==
    \E i \in Invocations :
        /\ failed_at[i] = "edit"
        /\ last_edit[i] # None /\ last_edit[i][1].outcome = "err"
        /\ presses > edits[i]
        /\ \A j \in Invocations \ {i} : pc[j] = "idle"

\* C9: when the scraper fails, the handler returns exactly that error: no card
\* is rendered, no reply sent, no button created, no press taken or answered.
ScrapeFailureAborts ==
    \A i \in Invocations :
        scrape[i] = "Err" =>
            /\ pc[i] = "done"
            /\ result[i] = "Err"
            /\ failed_at[i] = "scrape"
            /\ embed_pages[i] = <<>>
            /\ sent[i] = <<>>
            /\ press[i] = None
            /\ edits[i] = 0
            /\ last_edit[i] = None

\* A handler ended by the scraper's error while another's buttons are pressed.
ScrapeFailureWitness ==
    \E i, j \in Invocations :
        scrape[i] = "Err" /\ Posted(j) /\ presses >= 1

\* An HTTP status of success (2xx).
IsSuccessStatus(status) == status \in 200..299

\* C10 (as claimed): fetch_launches fails whenever the GET meets a transport
\* failure, a non-success HTTP status or a failure to read the body.
UpstreamFailureFails ==
    launches # NotFetched =>
        ((~upstream.transport_ok \/ ~IsSuccessStatus(upstream.status) \/ ~upstream.body_ok)
            => ~launches.ok)

\* The conditions under which a card is to yield a record.
Qualifies(c) ==
    /\ c.supporting # None
    /\ Len(c.supporting[1]) = 4
    /\ parse_time(c.supporting[1][2]) # None
    /\ c.header # None
    /\ Len(c.header[1]) >= 1
    /\ c.button # None
    /\ c.button[1] # None

\* C11: for every fetched document fetch_launches succeeds, and its records
\* are, in document order, exactly those of the cards that have a supporting
\* text of four runs whose run [1] parses as a time, a header with a text node
\* and a details button with an href; no other card is in the output or fails
\* the scrape.
ScrapeKeepsQualifyingCards ==
    (launches # NotFetched /\ upstream.transport_ok /\ upstream.body_ok) =>
        LET kept == SelectSeq(upstream.body, Qualifies) IN
        /\ launches.ok
        /\ Len(launches.val) = Len(kept)
        /\ \A k \in 1..Len(kept) :
             /\ launches.val[k].name = kept[k].header[1][1]
             /\ launches.val[k].launch_site = kept[k].supporting[1][4]
             /\ launches.val[k].details = kept[k].button[1][1]
             /\ Some(launches.val[k].time) = parse_time(kept[k].supporting[1][2])

\* Of three cards the middle one has three text runs: the first and the third
\* are returned, in that order.
ScrapeKeepsWitness ==
    /\ launches.ok
    /\ Len(upstream.body) = 3
    /\ upstream.body[1] = GoodCard
    /\ upstream.body[2] = ShortCard
    /\ upstream.body[3] = BravoCard
    /\ Len(launches.val) = 2
    /\ launches.val[2].name = BravoName

\* C12: card numbering is contiguous over the surviving records.  The card at
\* position i (0-based) is rendered from the i-th qualifying card of the
\* document, in document order, with title number i + 1, however many cards
\* were dropped.
CardNumbering ==
    rendered # None =>
        LET kept  == SelectSeq(upstream.body, Qualifies)
            cards == rendered[1]
        IN  /\ Len(cards) = Len(kept)
            /\ \A k \in 1..Len(cards) :
                 /\ cards[k].title = <<"#", k, " | ", trim(kept[k].header[1][1])>>
                 /\ cards[k].url = <<"https://nextspaceflight.com", kept[k].button[1][1]>>

\* Three cards of which the middle one has three text runs give two cards,
\* "#1 | Alpha" and "#2 | Bravo".
CardNumberingWitness ==
    /\ rendered # None
    /\ Len(upstream.body) = 3
    /\ upstream.body[2] = ShortCard
    /\ Len(rendered[1]) = 2
    /\ rendered[1][1].title = <<"#", 1, " | ", <<"A", "l", "p", "h", "a">>>>
    /\ rendered[1][2].title = <<"#", 2, " | ", <<"B", "r", "a", "v", "o">>>>

\* A time string up to its last whitespace: what stands before the zone.
RECURSIVE BeforeZone(_)
BeforeZone(s) ==
    IF s # <<>> /\ ~IsSpace(s[Len(s)]) THEN BeforeZone(SubSeq(s, 1, Len(s) - 1)) ELSE s

\* Two time strings are the same but for the zone abbreviation.
SameButZone(t, u) == BeforeZone(t) = BeforeZone(u)

\* C13: the zone abbreviation of a time string has no influence.  Two
\* qualifying cards whose time strings differ only in the zone abbreviation get
\* the same instant (the wall-clock fields read as UTC) and the same rendered
\* token <t:{epoch}:F>.
ZoneIgnored ==
    rendered # None =>
        LET kept  == SelectSeq(upstream.body, Qualifies)
            cards == rendered[1]
        IN  \A j, k \in 1..Len(cards) :
              SameButZone(kept[j].supporting[1][2], kept[k].supporting[1][2]) =>
                 /\ launches.val[j].time = launches.val[k].time
                 /\ cards[j].fields[1] = cards[k].fields[1]
                 /\ SameButZone(kept[j].supporting[1][2], LaunchTime) =>
                       /\ launches.val[j].time =
                            DateTime(DaysFromCivil(2026, 10, 30), 12 * 3600)
                       /\ cards[j].fields[1][2] =
                            <<"<t:", <<"1", "7", "9", "3", "3", "6", "1", "6", "0", "0">>,
                              ":F>">>

\* A UTC card and an EDT card of the same wall-clock time are both rendered.
ZoneIgnoredWitness ==
    /\ rendered # None
    /\ Len(rendered[1]) = 2
    /\ upstream.body = <<GoodCard, BravoCard>>
    /\ rendered[1][1].fields[1] = rendered[1][2].fields[1]
    /\ rendered[1][2].fields[1] =
         <<"Time", <<"<t:", <<"1", "7", "9", "3", "3", "6", "1", "6", "0", "0">>, ":F>">>,
           FALSE>>

\* C14: the presses of one invocation are handled strictly serially and in
\* arrival order.  The collector yields a press only while the handler waits
\* with no press in hand; each create_response answers the press in hand and
\* has come back before the next press is taken; so the edits follow the
\* presses taken one to one, in order, with at most one in flight.
SerialHandling ==
    [][ \A i \in Invocations :
          /\ (pc[i] \in {"handling", "editing"}) <=> (press[i] # None)
          /\ (press'[i] # press[i] /\ press'[i] # None) =>
                (pc[i] = "awaiting" /\ press[i] = None /\ pc'[i] = "handling"
                   /\ edits'[i] = edits[i])
          /\ edits'[i] # edits[i] =>
                (pc[i] = "handling" /\ edits'[i] = edits[i] + 1
                   /\ last_edit'[i][1].press = press[i][1]
                   /\ press'[i] = press[i] /\ pc'[i] = "editing")
          /\ pc[i] = "editing" =>
                (last_edit[i][1].press = press[i][1] /\ edits'[i] = edits[i]
                   /\ (press'[i] = press[i] \/ (press'[i] = None /\ pc'[i] # "editing"))) ]_vars

\* A second press, of the other button, is in hand after the first was answered.
SerialHandlingWitness ==
    \E i \in Invocations :
        /\ edits[i] = 1
        /\ pc[i] = "handling"
        /\ last_edit[i][1].press.msg = i /\ press[i][1].msg = i
        /\ last_edit[i][1].press.label = "Next" /\ press[i][1].label = "Previous"
        /\ last_edit[i][1].outcome = "ok"

\* C15: the idle timeout is measured from the most recent await, not from the
\* creation of the session.  Every await (the first and the one after each
\* handled press) starts a fresh window of 3600 seconds; a handler that waits
\* closes only when its current await has lasted the full window, and not
\* before, however long it has waited in all.
FreshWindowPerAwait ==
    [][ \A i \in Invocations :
          /\ (pc[i] # "awaiting" /\ pc'[i] = "awaiting") => idle'[i] = 0
          /\ (pc[i] = "awaiting" /\ pc'[i] = "done") =>
                (idle[i] >= 3600 /\ result'[i] = "Ok")
          /\ (pc[i] = "awaiting" /\ idle[i] < 3600) =>
                (pc'[i] \in {"awaiting", "handling"} /\ idle'[i] < 3600 + TickSecs) ]_vars

\* The second press of a session, which came after a wait shorter than the
\* window, is being answered; when the answer has come back an await starts
\* that has lasted no time.
FreshWindowWitness ==
    \E i \in Invocations :
        /\ pc[i] = "editing"
        /\ edits[i] = 2
        /\ idle[i] >= TickSecs /\ idle[i] < 3600
        /\ ENABLED (Edited(i) /\ pc'[i] = "awaiting" /\ idle'[i] = 0)

Active(i) == pc[i] \in {"awaiting", "handling", "editing"}

\* C16: session termination.  Every session whose initial reply was posted
\* eventually ends, the presses being finitely many; an active session moves
\* only by taking and answering a press (which alone may change its index) or
\* by ending, on timeout with Ok or on a failed dispatch with its error; and
\* a session that has ended never moves again.
SessionTerminates ==
    /\ [][ \A i \in Invocations :
             /\ Active(i) => (Active(i)' \/ pc'[i] = "done")
             /\ (Active(i) /\ pc'[i] = "done") =>
                   \/ pc[i] = "awaiting" /\ idle[i] >= 3600 /\ result'[i] = "Ok"
                   \/ pc[i] = "editing" /\ result'[i] = "Err" /\ failed_at'[i] = "edit"
             /\ (Active(i) /\ page_num'[i] # page_num[i]) =>
                   (pc[i] = "handling" /\ press[i] # None /\ edits'[i] = edits[i] + 1)
             /\ pc[i] = "done" =>
                   /\ pc'[i] = "done" /\ result'[i] = result[i]
                   /\ page_num'[i] = page_num[i] /\ edits'[i] = edits[i] ]_vars
    /\ \A i \in Invocations : Posted(i) ~> (pc[i] = "done")

\* Both sessions were posted and have ended, one by timeout after answering a
\* press, the other by a failed dispatch.
SessionTerminatesWitness ==
    \E i, j \in Invocations :
        /\ Posted(i) /\ pc[i] = "done" /\ result[i] = "Ok" /\ edits[i] >= 1
        /\ Posted(j) /\ pc[j] = "done" /\ result[j] = "Err" /\ failed_at[j] = "edit"

\* C17: one scrape per invocation and an immutable card set.  An invocation
\* scrapes once, before anything else, and its scrape has succeeded when its
\* reply is sent; from then on no press, edit or timeout changes the outcome
\* of the scrape or the rendered cards (their number and each of them), and
\* every edit shows one of those same cards.
OneScrapeImmutableCards ==
    [][ \A i \in Invocations :
          /\ (pc[i] \in {"idle", "fetching"}) <=> (scrape[i] = "none")
          /\ scrape'[i] # scrape[i] => (pc[i] = "fetching" /\ sent[i] = <<>>)
          /\ scrape[i] # "none" =>
                (scrape'[i] = scrape[i] /\ embed_pages'[i] = embed_pages[i])
          /\ Len(sent'[i]) # Len(sent[i]) =>
                /\ scrape'[i] = "Ok" /\ sent[i] = <<>> /\ Len(sent'[i]) = 1
                /\ sent'[i][1].reply.embed = embed_pages'[i][1]
          /\ sent[i] # <<>> =>
                (scrape[i] = "Ok" /\ sent'[i][1].reply = sent[i][1].reply)
          /\ edits'[i] # edits[i] =>
                /\ scrape[i] = "Ok"
                /\ \E n \in 1..Len(embed_pages[i]) :
                      last_edit'[i][1].embed = embed_pages[i][n] ]_vars

\* A session over as many cards as the scrape can give has answered two
\* presses and was closed by its timeout.
OneScrapeWitness ==
    \E i \in Invocations :
        /\ scrape[i] = "Ok" /\ Len(embed_pages[i]) = MaxCards
        /\ edits[i] = 2
        /\ pc[i] = "done" /\ result[i] = "Ok"

\* C18: the index of a session changes only on a press whose custom_id is
\* exactly its own Next or Previous id.  A press on the buttons of another
\* session never changes it, even when this session's id is a prefix of the
\* other's and its collector therefore yields the press.
IndexChangesOnOwnPressOnly ==
    [][ \A i \in Invocations :
          /\ page_num'[i] # page_num[i] =>
                /\ pc[i] = "handling" /\ press[i] # None
                /\ press[i][1].custom_id \in OwnIds(i)
                /\ press[i][1].msg = i
          /\ (pc[i] = "handling" /\ press[i][1].msg # i) =>
                page_num'[i] = page_num[i] ]_vars

\* A session standing on its second card has just answered a press on the
\* other session's Previous button, which its prefix filter let through.
ForeignPressWitness ==
    \E i \in Invocations :
        /\ last_edit[i] # None
        /\ last_edit[i][1].press.msg # i
        /\ last_edit[i][1].press.label = "Previous"
        /\ collector_filter(ctx_id[i], last_edit[i][1].press.custom_id)
        /\ nexts[i] = 1 /\ page_num[i] = 1
        /\ Len(embed_pages[i]) >= 2

\* C19 (as claimed): no press is lost while the session is active.  Every
\* press of the session's buttons delivered before it closed is handled, with
\* one edit each, also a press that arrives while an earlier press is being
\* answered.  For a session that is the only one posted: whenever it is
\* awaiting within its window with nothing in hand, it has made as many edits
\* as presses were delivered.
NoPressLost ==
    \A i \in Invocations :
        ( /\ \A j \in Invocations \ {i} : ~Posted(j)
          /\ pc[i] = "awaiting" /\ idle[i] < 3600
          /\ press[i] = None ) =>
            edits[i] = presses
====
